---- MODULE Spec2Model ----
(***************************************************************************)
(* Model of src/app.py: a Streamlit dashboard script.  One execution of    *)
(* the script from top to bottom is a "pass"; the actions are the          *)
(* script's sections in order (load_data, page configuration, sidebar      *)
(* filters, metrics, bar chart, pie chart, data grid) and the rerun that   *)
(* a widget interaction triggers.  Strings are sequences of one-character  *)
(* strings so that the regex replacement, strip, integer formatting and    *)
(* parsing, and the string ordering used by Series.mode() are computed     *)
(* rather than assumed.                                                    *)
(***************************************************************************)
EXTENDS Integers, Sequences, FiniteSets, TLC

VARIABLES
    source,              \* the CSV behind file_path: kind, readable, variant, rows
    sortKind,            \* how this build's default sort orders equal counts
    cache,               \* st.cache_data entry of load_data(DATA_FILE)
    widgets,             \* session state of the slider and the multiselect
    offered,             \* every options list given to st.sidebar.multiselect so far
    pc,                  \* position of the running pass in the script
    exc,                 \* uncaught exception that ended the pass, or "none"
    done,                \* sections of the script this pass has executed
    messages,            \* st.error / st.warning boxes this pass has shown
    df_original,
    year_range,
    top_artists,
    selected_artists,
    df_filtered,
    metrics,
    top_10_artists,
    decade_distribution,
    grid

vars == <<source, sortKind, cache, widgets, offered, pc, exc, done, messages,
          df_original, year_range, top_artists, selected_artists, df_filtered,
          metrics, top_10_artists, decade_distribution, grid>>

---------------------------------------------------------------------------
(* Bounds of the model *)

\* rows of a small source table
MaxRows == 3
\* distinct artists of the large source table
MaxBulk == 101
\* rows of the large source table that repeat an earlier artist
MaxDup == 1
\* how many of the offered options the user picks among
MaxPick == 2

(* Program constants *)

MinYear == 1921
MaxYear == 2020
DefaultLo == 1990
DefaultHi == 2020
TopOptions == 100
TopBars == 10
\* a missing numeric cell (NaN); real years and popularities are >= 0
NaN == -1
\* a missing text cell (NaN): no real cell is this one-element sequence
NaNText == <<"NaN">>

---------------------------------------------------------------------------
(* Strings *)

Digits == <<"0", "1", "2", "3", "4", "5", "6", "7", "8", "9">>

\* code point of a character: Python orders str values by code point
Code(c) ==
    CASE c = " "  -> 32
      [] c = "\"" -> 34
      [] c = "'"  -> 39
      [] c = ","  -> 44
      [] c = "-"  -> 45
      [] c \in {Digits[i] : i \in 1..10} -> 47 + (CHOOSE i \in 1..10 : Digits[i] = c)
      [] c = "A"  -> 65
      [] c = "B"  -> 66
      [] c = "["  -> 91
      [] c = "]"  -> 93
      [] c = "s"  -> 115
      [] c = "x"  -> 120

RECURSIVE StrLess(_, _)
\* a < b for two str values
StrLess(a, b) ==
    IF b = <<>> THEN FALSE
    ELSE IF a = <<>> THEN TRUE
    ELSE IF Head(a) = Head(b) THEN StrLess(Tail(a), Tail(b))
    ELSE Code(Head(a)) < Code(Head(b))

RECURSIVE IntToStr(_)
\* str(n) for n >= 0
IntToStr(n) ==
    IF n < 10 THEN <<Digits[n + 1]>>
    ELSE IntToStr(n \div 10) \o <<Digits[(n % 10) + 1]>>

RECURSIVE StrToInt(_)
\* int(s) for a string of decimal digits
StrToInt(s) ==
    IF s = <<>> THEN 0
    ELSE StrToInt(SubSeq(s, 1, Len(s) - 1)) * 10
         + ((CHOOSE i \in 1..10 : Digits[i] = s[Len(s)]) - 1)

\* s with every character of the set chars removed
RemoveChars(s, chars) ==
    LET Keep(c) == c \notin chars
    IN SelectSeq(s, Keep)

RECURSIVE LStrip(_)
LStrip(s) ==
    IF s # <<>> /\ Head(s) = " " THEN LStrip(Tail(s)) ELSE s

RECURSIVE RStrip(_)
RStrip(s) ==
    IF s # <<>> /\ s[Len(s)] = " " THEN RStrip(SubSeq(s, 1, Len(s) - 1)) ELSE s

\* str.strip()
Strip(s) == LStrip(RStrip(s))

---------------------------------------------------------------------------
(* load_data *)

\* the characters matched by the regex [\[\]']
ListLiteralChars == {"[", "]", "'"}

\* df['artists'].str.replace(r"[\[\]']", '', regex=True).str.strip(), one cell
CleanArtists(s) == Strip(RemoveChars(s, ListLiteralChars))

\* a row survives dropna(subset=['artists', 'name', 'popularity', 'year'])
NotNa(r) ==
    /\ r.artists # NaNText
    /\ r.name # NaNText
    /\ r.popularity # NaN
    /\ r.year10 # NaN

\* astype(int) of a non-negative float held in tenths: truncation
AsTypeInt(y10) == y10 \div 10

\* mutant: the range test without its lower bound
YearInRangeNoLower(y) == y <= MaxYear

\* (df['year'] >= 1921) & (df['year'] <= 2020)
YearInRange(y) == y >= MinYear /\ y <= MaxYear

\* ((df['year'] // 10) * 10).astype(str) + 's'
DecadeOf(y) == IntToStr((y \div 10) * 10) \o <<"s">>

\* body of load_data after read_csv succeeded on a Variant A table
Normalize(rows) ==
    LET Indexed == [i \in 1..Len(rows) |->
                      [idx |-> i - 1,
                       artists |-> rows[i].artists,
                       name |-> rows[i].name,
                       popularity |-> rows[i].popularity,
                       year10 |-> rows[i].year10]]
        Dropped == SelectSeq(Indexed, NotNa)
        Typed == [i \in 1..Len(Dropped) |->
                      [idx |-> Dropped[i].idx,
                       artists |-> Dropped[i].artists,
                       name |-> Dropped[i].name,
                       popularity |-> Dropped[i].popularity,
                       year |-> AsTypeInt(Dropped[i].year10)]]
        KeepYear(r) == YearInRange(r.year)
        Ranged == SelectSeq(Typed, KeepYear)
    IN [i \in 1..Len(Ranged) |->
            [idx |-> Ranged[i].idx,
             artists |-> CleanArtists(Ranged[i].artists),
             name |-> Ranged[i].name,
             popularity |-> Ranged[i].popularity,
             year |-> Ranged[i].year,
             decade |-> DecadeOf(Ranged[i].year)]]

---------------------------------------------------------------------------
(* Series.value_counts, Series.nlargest, Series.mode, sort_values *)

\* The orders in which value_counts can leave equal counts.  pandas sorts the
\* counts with sort_values' default kind, 'quicksort', which numpy documents
\* as not stable: equal counts keep the order of first appearance under one
\* numpy build or input size and lose it under another.  The order is a fixed
\* function of the input on a given build, so it is chosen once, in Init, and
\* it is left open for tables of every size.
TieOrders == {"first_seen", "reversed"}

\* the distinct values of s in order of first appearance (the hash table's keys)
Unique(s) ==
    LET cells == [i \in 1..Len(s) |-> [pos |-> i, val |-> s[i]]]
        IsFirst(c) == \A j \in 1..(c.pos - 1) : s[j] # c.val
        firsts == SelectSeq(cells, IsFirst)
    IN [i \in 1..Len(firsts) |-> firsts[i].val]

\* number of cells of s equal to v
CountOf(v, s) ==
    LET Same(x) == x = v
    IN Len(SelectSeq(s, Same))

Reverse(s) == [i \in 1..Len(s) |-> s[Len(s) + 1 - i]]

RECURSIVE TiersDesc(_, _, _)
\* entries with count c, then those with c - 1, ...: a descending sort by count
TiersDesc(entries, c, kind) ==
    IF c = 0 THEN <<>>
    ELSE LET AtC(e) == e.count = c
             tier == SelectSeq(entries, AtC)
         IN (IF kind = "first_seen" THEN tier ELSE Reverse(tier))
            \o TiersDesc(entries, c - 1, kind)

\* the largest count among entries (0 for none)
MaxCount(entries) ==
    IF entries = <<>> THEN 0
    ELSE CHOOSE c \in {entries[i].count : i \in 1..Len(entries)} :
            \A i \in 1..Len(entries) : entries[i].count <= c

\* Series.value_counts(): one entry per distinct value, sorted by count descending
ValueCounts(s, kind) ==
    LET keys == Unique(s)
        entries == [i \in 1..Len(keys) |-> [key |-> keys[i], count |-> CountOf(keys[i], s)]]
    IN TiersDesc(entries, MaxCount(entries), kind)

\* .head(n)
HeadN(s, n) == SubSeq(s, 1, IF Len(s) < n THEN Len(s) ELSE n)

\* mutant: nlargest that keeps every entry
NLargestAll(vc, n) == vc

\* Series.nlargest(n), keep='first': the n largest counts in descending order,
\* equal counts in the order the Series has them
NLargest(vc, n) == HeadN(TiersDesc(vc, MaxCount(vc), "first_seen"), n)

\* np.sort of an array of distinct str: each value goes to the place given by
\* the number of values below it
SortStr(s) ==
    LET vals == {s[i] : i \in 1..Len(s)}
        below == [v \in vals |-> Cardinality({w \in vals : StrLess(w, v)})]
    IN [k \in 1..Len(s) |-> CHOOSE v \in vals : below[v] = k - 1]

\* Series.mode(): the values with the highest count, sorted
Mode(s) ==
    LET keys == Unique(s)
        counts == [i \in 1..Len(keys) |-> CountOf(keys[i], s)]
        IsTop(i) == \A j \in 1..Len(keys) : counts[j] <= counts[i]
        tops == {keys[i] : i \in {k \in 1..Len(keys) : IsTop(k)}}
        AmongTops(k) == k \in tops
    IN SortStr(SelectSeq(keys, AmongTops))

\* decade_distribution['Década'].str.replace('s', '').astype(int), one cell
SortDecade(label) == StrToInt(RemoveChars(label, {"s"}))

RECURSIVE InsertByDecade(_, _)
InsertByDecade(e, sorted) ==
    IF sorted = <<>> THEN <<e>>
    ELSE IF SortDecade(e.key) < SortDecade(Head(sorted).key) THEN <<e>> \o sorted
    ELSE <<Head(sorted)>> \o InsertByDecade(e, Tail(sorted))

\* mutant: the table left in value_counts order
SortByDecadeSkipped(vc) == vc

RECURSIVE SortByDecade(_)
\* decade_distribution.sort_values(by='Sort_Decade')
SortByDecade(vc) ==
    IF vc = <<>> THEN <<>>
    ELSE InsertByDecade(vc[Len(vc)], SortByDecade(SubSeq(vc, 1, Len(vc) - 1)))

Column(df, c) == [i \in 1..Len(df) |-> df[i][c]]

---------------------------------------------------------------------------
(* Sources the script is run against *)

\* rows of a Variant A file (artists, name, popularity, year; year in tenths)
Catalogue ==
    { [artists |-> <<"[", "'", "A", "'", "]">>, name |-> <<"s">>, popularity |-> 50, year10 |-> 19850],
      [artists |-> <<"B">>,                     name |-> <<"s">>, popularity |-> 70, year10 |-> 20209],
      [artists |-> <<" ", "A">>,                name |-> <<"s">>, popularity |-> 90, year10 |-> 19900],
      [artists |-> <<"[", "\"", "B", "\"", "]">>, name |-> <<"s">>, popularity |-> 30, year10 |-> 20200],
      [artists |-> NaNText,                     name |-> <<"s">>, popularity |-> 50, year10 |-> 20200],
      [artists |-> <<"A">>,                     name |-> <<"s">>, popularity |-> NaN, year10 |-> 19209],
      [artists |-> <<"B">>,                     name |-> <<"s">>, popularity |-> 50, year10 |-> 19209],
      [artists |-> <<"A">>,                     name |-> <<"s">>, popularity |-> 50, year10 |-> 20210] }

SmallTables == UNION {[1..n -> Catalogue] : n \in 0..MaxRows}

\* a file with n distinct artists x1 .. xn, then dup rows repeating the last ones
BulkTable(n, dup) ==
    [i \in 1..(n + dup) |->
        [artists |-> <<"x">> \o IntToStr(IF i <= n THEN i ELSE 2 * n + 1 - i),
         name |-> <<"s">>,
         popularity |-> 50,
         year10 |-> IF i % 2 = 1 /\ i <= n THEN 19850 ELSE 20200]]

BulkTables == {BulkTable(MaxBulk, dup) : dup \in 0..MaxDup}

\* rows of a Variant B file
CatalogueB ==
    { [track_artist |-> <<"A">>, track_name |-> <<"s">>, popularity |-> 50,
       track_album_release_date |-> <<"2", "0", "1", "9", "-", "0", "7", "-", "0", "5">>],
      [track_artist |-> <<"B">>, track_name |-> <<"s">>, popularity |-> 70,
       track_album_release_date |-> <<"x">>] }

TablesB == UNION {[1..n -> CatalogueB] : n \in 1..2}

Sources ==
    {[kind |-> k, readable |-> FALSE, variant |-> "A", rows |-> <<>>] : k \in {"file", "url"}}
    \cup {[kind |-> "file", readable |-> TRUE, variant |-> "A", rows |-> t] :
              t \in SmallTables \cup BulkTables}
    \cup {[kind |-> "file", readable |-> TRUE, variant |-> "B", rows |-> t] : t \in TablesB}

---------------------------------------------------------------------------
(* The script *)

NoMetrics == [total_tracks |-> 0, popularity_sum |-> 0, most_frequent_artist |-> <<>>]

DefaultRange == <<DefaultLo, DefaultHi>>

\* every variable a pass assigns, before the pass has assigned it
PassReset ==
    /\ exc' = "none"
    /\ done' = {}
    /\ messages' = {}
    /\ df_original' = <<>>
    /\ year_range' = DefaultRange
    /\ top_artists' = <<>>
    /\ selected_artists' = {}
    /\ df_filtered' = <<>>
    /\ metrics' = NoMetrics
    /\ top_10_artists' = <<>>
    /\ decade_distribution' = <<>>
    /\ grid' = <<>>

Init ==
    /\ source \in Sources
    /\ sortKind \in TieOrders
    /\ cache = [valid |-> FALSE, df |-> <<>>]
    /\ widgets = [year_range |-> DefaultRange, selected |-> {}]
    /\ offered = {}
    /\ pc = "start"
    /\ exc = "none"
    /\ done = {}
    /\ messages = {}
    /\ df_original = <<>>
    /\ year_range = DefaultRange
    /\ top_artists = <<>>
    /\ selected_artists = {}
    /\ df_filtered = <<>>
    /\ metrics = NoMetrics
    /\ top_10_artists = <<>>
    /\ decade_distribution = <<>>
    /\ grid = <<>>

\* load_data(DATA_FILE) answered by st.cache_data: the body does not run
LoadCached ==
    /\ pc = "start"
    /\ cache.valid
    /\ df_original' = cache.df
    /\ done' = done \cup {"load"}
    /\ pc' = "config"
    /\ UNCHANGED <<source, sortKind, cache, widgets, offered, exc, messages, year_range,
                   top_artists, selected_artists, df_filtered, metrics, top_10_artists,
                   decade_distribution, grid>>

\* pd.read_csv raises FileNotFoundError: st.error, then st.stop
LoadFileNotFound ==
    /\ pc = "start"
    /\ ~cache.valid
    /\ ~source.readable
    /\ source.kind = "file"
    /\ messages' = messages \cup {"error"}
    /\ pc' = "stopped"
    /\ UNCHANGED <<source, sortKind, cache, widgets, offered, exc, done, df_original,
                   year_range, top_artists, selected_artists, df_filtered, metrics,
                   top_10_artists, decade_distribution, grid>>

\* pd.read_csv of a URL raises urllib.error.URLError, which the except clause
\* (FileNotFoundError) does not match: the exception leaves load_data
LoadFetchError ==
    /\ pc = "start"
    /\ ~cache.valid
    /\ ~source.readable
    /\ source.kind = "url"
    /\ exc' = "URLError"
    /\ pc' = "crashed"
    /\ UNCHANGED <<source, sortKind, cache, widgets, offered, done, messages, df_original,
                   year_range, top_artists, selected_artists, df_filtered, metrics,
                   top_10_artists, decade_distribution, grid>>

\* a table without the columns artists, name, year: dropna(subset=...) raises KeyError
LoadKeyError ==
    /\ pc = "start"
    /\ ~cache.valid
    /\ source.readable
    /\ source.variant = "B"
    /\ exc' = "KeyError"
    /\ pc' = "crashed"
    /\ UNCHANGED <<source, sortKind, cache, widgets, offered, done, messages, df_original,
                   year_range, top_artists, selected_artists, df_filtered, metrics,
                   top_10_artists, decade_distribution, grid>>

\* load_data runs to its return; st.cache_data stores the result
LoadOk ==
    /\ pc = "start"
    /\ ~cache.valid
    /\ source.readable
    /\ source.variant = "A"
    /\ df_original' = Normalize(source.rows)
    /\ cache' = [valid |-> TRUE, df |-> df_original']
    /\ done' = done \cup {"load"}
    /\ pc' = "config"
    /\ UNCHANGED <<source, sortKind, widgets, offered, exc, messages, year_range,
                   top_artists, selected_artists, df_filtered, metrics, top_10_artists,
                   decade_distribution, grid>>

\* st.set_page_config, st.title, st.markdown
PageConfig ==
    /\ pc = "config"
    /\ done' = done \cup {"config"}
    /\ pc' = "filters"
    /\ UNCHANGED <<source, sortKind, cache, widgets, offered, exc, messages, df_original,
                   year_range, top_artists, selected_artists, df_filtered, metrics,
                   top_10_artists, decade_distribution, grid>>

Min(S) == CHOOSE x \in S : \A y \in S : x <= y
Max(S) == CHOOSE x \in S : \A y \in S : y <= x

YearsOf(df) == {df[i].year : i \in 1..Len(df)}

\* st.sidebar.slider accepts its default value: min_value <= 1990, 2020 <= max_value
SliderAccepts(df) ==
    /\ df # <<>>
    /\ Min(YearsOf(df)) <= DefaultLo
    /\ DefaultHi <= Max(YearsOf(df))

\* mutant: the year filter with an exclusive upper end
FilterYearExclusive(df, yr) ==
    LET InRange(r) == r.year >= yr[1] /\ r.year < yr[2]
    IN SelectSeq(df, InRange)

\* df[(df['year'] >= year_range[0]) & (df['year'] <= year_range[1])]
FilterYear(df, yr) ==
    LET InRange(r) == r.year >= yr[1] /\ r.year <= yr[2]
    IN SelectSeq(df, InRange)

\* if selected_artists: df[df['artists'].isin(selected_artists)]
FilterArtists(df, selected) ==
    LET IsIn(r) == r.artists \in selected
    IN IF selected # {} THEN SelectSeq(df, IsIn) ELSE df

\* mutant: the options computed from the year-filtered table
TopArtistsOfFiltered(original, kind) ==
    LET top == NLargest(ValueCounts(Column(FilterYear(original, widgets.year_range),
                                           "artists"), kind), TopOptions)
    IN [i \in 1..Len(top) |-> top[i].key]

\* df_original['artists'].value_counts().nlargest(100).index.tolist()
TopArtists(original, kind) ==
    LET top == NLargest(ValueCounts(Column(original, "artists"), kind), TopOptions)
    IN [i \in 1..Len(top) |-> top[i].key]

\* mutant: the empty check never taken
IsEmptyNever(df) == FALSE

\* df_filtered.empty
IsEmpty(df) == Len(df) = 0

\* int(df_original['year'].min()) of an empty table raises ValueError; a slider
\* whose default value lies outside [min_year, max_year] raises StreamlitAPIException
FiltersRaise ==
    /\ pc = "filters"
    /\ ~SliderAccepts(df_original)
    /\ exc' = IF df_original = <<>> THEN "ValueError" ELSE "StreamlitAPIException"
    /\ pc' = "crashed"
    /\ UNCHANGED <<source, sortKind, cache, widgets, offered, done, messages, df_original,
                   year_range, top_artists, selected_artists, df_filtered, metrics,
                   top_10_artists, decade_distribution, grid>>

\* the sidebar block: slider, year filter, multiselect, artist filter, empty check
Filters ==
    /\ pc = "filters"
    /\ SliderAccepts(df_original)
    /\ year_range' = widgets.year_range
    /\ top_artists' = TopArtists(df_original, sortKind)
    /\ offered' = offered \cup {top_artists'}
    /\ selected_artists' = widgets.selected
    /\ df_filtered' = FilterArtists(FilterYear(df_original, year_range'), selected_artists')
    /\ done' = done \cup {"filters"}
    /\ IF IsEmpty(df_filtered')
          THEN /\ messages' = messages \cup {"warning"}
               /\ pc' = "stopped"
          ELSE /\ messages' = messages
               /\ pc' = "metrics"
    /\ UNCHANGED <<source, sortKind, cache, widgets, exc, df_original, metrics,
                   top_10_artists, decade_distribution, grid>>

RECURSIVE Sum(_)
\* Series.sum(), by halves
Sum(s) ==
    IF s = <<>> THEN 0
    ELSE IF Len(s) = 1 THEN s[1]
    ELSE Sum(SubSeq(s, 1, Len(s) \div 2)) + Sum(SubSeq(s, (Len(s) \div 2) + 1, Len(s)))

\* mutant: the first artist of value_counts in first-seen order instead of mode()
MostFrequentArtistFirstSeen(df) ==
    LET vc == ValueCounts(Column(df, "artists"), "first_seen")
    IN IF vc # <<>> THEN vc[1].key ELSE <<"N", "/", "A">>

\* df['artists'].mode().iloc[0] if not df['artists'].mode().empty else "N/A"
MostFrequentArtist(df) ==
    LET m == Mode(Column(df, "artists"))
    IN IF m # <<>> THEN m[1] ELSE <<"N", "/", "A">>

\* the three st.metric cards; the mean is kept as its numerator over total_tracks
Metrics ==
    /\ pc = "metrics"
    /\ metrics' = [total_tracks |-> Len(df_filtered),
                   popularity_sum |-> Sum(Column(df_filtered, "popularity")),
                   most_frequent_artist |-> MostFrequentArtist(df_filtered)]
    /\ done' = done \cup {"metrics"}
    /\ pc' = "bar"
    /\ UNCHANGED <<source, sortKind, cache, widgets, offered, exc, messages, df_original,
                   year_range, top_artists, selected_artists, df_filtered, top_10_artists,
                   decade_distribution, grid>>

\* df_filtered['artists'].value_counts().nlargest(10).reset_index()
Top10Artists(df, kind) == NLargest(ValueCounts(Column(df, "artists"), kind), TopBars)

BarChart ==
    /\ pc = "bar"
    /\ top_10_artists' = Top10Artists(df_filtered, sortKind)
    /\ done' = done \cup {"bar"}
    /\ pc' = "pie"
    /\ UNCHANGED <<source, sortKind, cache, widgets, offered, exc, messages, df_original,
                   year_range, top_artists, selected_artists, df_filtered, metrics,
                   decade_distribution, grid>>

\* df_filtered['decade'].value_counts().reset_index(), then sort_values(by='Sort_Decade')
DecadeDistribution(df, kind) == SortByDecade(ValueCounts(Column(df, "decade"), kind))

PieChart ==
    /\ pc = "pie"
    /\ decade_distribution' = DecadeDistribution(df_filtered, sortKind)
    /\ done' = done \cup {"pie"}
    /\ pc' = "grid"
    /\ UNCHANGED <<source, sortKind, cache, widgets, offered, exc, messages, df_original,
                   year_range, top_artists, selected_artists, df_filtered, metrics,
                   top_10_artists, grid>>

\* df_filtered.drop(columns=['decade'])
DropDecade(df) ==
    [i \in 1..Len(df) |->
        [idx |-> df[i].idx, artists |-> df[i].artists, name |-> df[i].name,
         popularity |-> df[i].popularity, year |-> df[i].year]]

DataEditor ==
    /\ pc = "grid"
    /\ grid' = DropDecade(df_filtered)
    /\ done' = done \cup {"grid"}
    /\ pc' = "done"
    /\ UNCHANGED <<source, sortKind, cache, widgets, offered, exc, messages, df_original,
                   year_range, top_artists, selected_artists, df_filtered, metrics,
                   top_10_artists, decade_distribution>>

\* the ranges the user drags the slider to, within [min_year, max_year]
RangeChoices(df) ==
    {yr \in {Min(YearsOf(df)), DefaultLo} \X {DefaultLo, Max(YearsOf(df))} : yr[1] <= yr[2]}

\* the selections the user makes among the first options of the multiselect
PickChoices(options) ==
    SUBSET {options[i] : i \in 1..(IF Len(options) < MaxPick THEN Len(options) ELSE MaxPick)}

\* the pass has ended and the script runs again with no widget changed
Rerun ==
    /\ pc \in {"done", "stopped", "crashed"}
    /\ pc' = "start"
    /\ PassReset
    /\ UNCHANGED <<source, sortKind, cache, widgets, offered>>

\* the user moves the year slider: its new value is in session state and the script reruns
ChangeYearRange ==
    /\ pc \in {"done", "stopped"}
    /\ "filters" \in done
    /\ \E yr \in RangeChoices(df_original) :
          /\ yr # widgets.year_range
          /\ widgets' = [widgets EXCEPT !.year_range = yr]
    /\ pc' = "start"
    /\ PassReset
    /\ UNCHANGED <<source, sortKind, cache, offered>>

\* the user changes the artist selection, and the script reruns
ChangeSelection ==
    /\ pc \in {"done", "stopped"}
    /\ "filters" \in done
    /\ \E sel \in PickChoices(top_artists) :
          /\ sel # widgets.selected
          /\ widgets' = [widgets EXCEPT !.selected = sel]
    /\ pc' = "start"
    /\ PassReset
    /\ UNCHANGED <<source, sortKind, cache, offered>>

Next ==
    \/ LoadCached
    \/ LoadFileNotFound
    \/ LoadFetchError
    \/ LoadKeyError
    \/ LoadOk
    \/ PageConfig
    \/ FiltersRaise
    \/ Filters
    \/ Metrics
    \/ BarChart
    \/ PieChart
    \/ DataEditor
    \/ Rerun
    \/ ChangeYearRange
    \/ ChangeSelection

Spec == Init /\ [][Next]_vars

---------------------------------------------------------------------------
(* Properties *)

\* C1: every row of the table load_data returns has 1921 <= year <= 2020 and a
\* decade label that is the decimal text of (year // 10) * 10 followed by "s".
C1_YearAndDecade ==
    \A i \in 1..Len(df_original) :
        LET r == df_original[i]
            n == Len(r.decade)
        IN /\ r.year >= 1921
           /\ r.year <= 2020
           /\ n = 5
           /\ r.decade[n] = "s"
           /\ \A k \in 1..(n - 1) : r.decade[k] \in {Digits[d] : d \in 1..10}
           /\ StrToInt(SubSeq(r.decade, 1, n - 1)) = (r.year \div 10) * 10

\* C1 witness: a loaded table that kept a row whose year was 2020.9 in the file
\* and lost a complete row whose year was 1920.9.
C1_Witness ==
    /\ "load" \in done
    /\ \E i \in 1..Len(df_original) :
          /\ df_original[i].year = 2020
          /\ source.rows[df_original[i].idx + 1].year10 = 20209
    /\ \E k \in 1..Len(source.rows) :
          /\ NotNa(source.rows[k])
          /\ source.rows[k].year10 = 19209
          /\ \A i \in 1..Len(df_original) : df_original[i].idx # k - 1

\* C2: the filtered rows are exactly the rows of the table with
\* minYear <= year <= maxYear and, when the selection is non-empty, an artists
\* value in the selection; they keep the table's order, none repeated.
C2_FilteredExactly ==
    "filters" \in done =>
        LET Wanted(r) ==
                /\ year_range[1] <= r.year
                /\ r.year <= year_range[2]
                /\ (selected_artists = {} \/ r.artists \in selected_artists)
        IN /\ \A i \in 1..Len(df_original) :
                  Wanted(df_original[i]) <=>
                      \E j \in 1..Len(df_filtered) : df_filtered[j] = df_original[i]
           /\ \A j \in 1..Len(df_filtered) :
                  \E i \in 1..Len(df_original) : df_filtered[j] = df_original[i]
           /\ \A j, k \in 1..Len(df_filtered) :
                  j < k => df_filtered[j].idx < df_filtered[k].idx

\* C2 witness: a pass with a non-empty selection whose result is non-empty and
\* leaves out one row for its year and another for its artist.
C2_Witness ==
    /\ "filters" \in done
    /\ selected_artists # {}
    /\ df_filtered # <<>>
    /\ \E i \in 1..Len(df_original) :
          /\ df_original[i].artists \in selected_artists
          /\ df_original[i].year > year_range[2] \/ df_original[i].year < year_range[1]
    /\ \E i \in 1..Len(df_original) :
          /\ df_original[i].artists \notin selected_artists
          /\ df_original[i].year >= year_range[1]
          /\ df_original[i].year <= year_range[2]

\* C3: when the source cannot be read (missing file or failed fetch), the pass
\* has shown the loader's error message and has halted with no later step run.
C3_UnreadableShowsErrorAndHalts ==
    (~source.readable /\ pc # "start") =>
        /\ "error" \in messages
        /\ pc \in {"stopped", "crashed"}
        /\ done = {}

\* C4: a pass whose filters leave no rows has shown the warning and stopped,
\* with no metric, top-artist table, decade table or grid computed; and a pass
\* that computed the metrics has a non-empty filtered set.
C4_EmptyStopsPass ==
    /\ ("filters" \in done /\ df_filtered = <<>>) =>
          /\ "warning" \in messages
          /\ pc = "stopped"
          /\ done \cap {"metrics", "bar", "pie", "grid"} = {}
          /\ metrics = NoMetrics
          /\ top_10_artists = <<>>
          /\ decade_distribution = <<>>
          /\ grid = <<>>
    /\ "metrics" \in done => df_filtered # <<>>

\* C4 witness: the filters ran on a non-empty table and left no rows.
C4_Witness ==
    /\ "filters" \in done
    /\ df_original # <<>>
    /\ df_filtered = <<>>
    /\ pc = "stopped"

\* C5 as claimed: the modal artist has the highest row count in the filtered
\* set and, among the artists tied for it, the earliest first row (read either
\* as the first row in the filtered set or as the first row in the table).
C5_ModalFirstEncountered ==
    "metrics" \in done =>
        LET col == Column(df_filtered, "artists")
            m == metrics.most_frequent_artist
            IsTop(a) == \A j \in 1..Len(col) : CountOf(col[j], col) <= CountOf(a, col)
            First(a) == Min({j \in 1..Len(col) : col[j] = a})
        IN /\ \E j \in 1..Len(col) : col[j] = m
           /\ IsTop(m)
           /\ \A j \in 1..Len(col) : IsTop(col[j]) => First(m) <= First(col[j])

\* C5 amended: the modal artist has the highest row count in the filtered set
\* and, among the artists tied for it, is the least in string order.
C5_ModalLeastString ==
    "metrics" \in done =>
        LET col == Column(df_filtered, "artists")
            m == metrics.most_frequent_artist
            IsTop(a) == \A j \in 1..Len(col) : CountOf(col[j], col) <= CountOf(a, col)
        IN /\ \E j \in 1..Len(col) : col[j] = m
           /\ IsTop(m)
           /\ \A j \in 1..Len(col) : IsTop(col[j]) => ~StrLess(col[j], m)

\* C5 witness: the metrics of a filtered set in which two artists tie for the
\* highest count and the one met first is not the least in string order.
C5_Witness ==
    /\ "metrics" \in done
    /\ LET col == Column(df_filtered, "artists")
           IsTop(a) == \A j \in 1..Len(col) : CountOf(col[j], col) <= CountOf(a, col)
       IN /\ IsTop(col[1])
          /\ \E j \in 2..Len(col) : IsTop(col[j]) /\ StrLess(col[j], col[1])

\* C6 as claimed: the top-artist table has at most 10 entries, in descending
\* count order, each listed count >= every unlisted count, and artists with equal
\* counts ordered and selected by first-encountered order (read either as the
\* first row in the filtered set or as the first row in the table).
C6_Top10FirstEncountered ==
    "bar" \in done =>
        LET col == Column(df_filtered, "artists")
            all == Column(df_original, "artists")
            arts == {col[j] : j \in 1..Len(col)}
            cnt == [a \in arts |-> CountOf(a, col)]
            n == Len(top_10_artists)
            listed == {top_10_artists[i].key : i \in 1..n}
            FirstF == [a \in arts |-> Min({j \in 1..Len(col) : col[j] = a})]
            FirstT == [a \in arts |-> Min({j \in 1..Len(all) : all[j] = a})]
            TiesBy(first) ==
                /\ \A i, j \in 1..n :
                      (i < j /\ top_10_artists[i].count = top_10_artists[j].count)
                          => first[top_10_artists[i].key] < first[top_10_artists[j].key]
                /\ \A a \in listed : \A b \in arts \ listed :
                      cnt[a] = cnt[b] => first[a] < first[b]
        IN /\ n <= 10
           /\ listed \subseteq arts
           /\ \A i \in 1..n : top_10_artists[i].count = cnt[top_10_artists[i].key]
           /\ \A i, j \in 1..n : i < j => top_10_artists[i].count >= top_10_artists[j].count
           /\ \A a \in listed : \A b \in arts \ listed : cnt[a] >= cnt[b]
           /\ TiesBy(FirstF) \/ TiesBy(FirstT)

\* C6 amended: the top-artist table has min(10, number of artists) entries, one
\* per listed artist with its row count in the filtered set, in descending count
\* order, each listed count >= every unlisted count.
C6_Top10Largest ==
    "bar" \in done =>
        LET col == Column(df_filtered, "artists")
            arts == {col[j] : j \in 1..Len(col)}
            cnt == [a \in arts |-> CountOf(a, col)]
            n == Len(top_10_artists)
            listed == {top_10_artists[i].key : i \in 1..n}
        IN /\ n <= 10
           /\ n = 10 \/ n = Cardinality(arts)
           /\ Cardinality(listed) = n
           /\ listed \subseteq arts
           /\ \A i \in 1..n : top_10_artists[i].count = cnt[top_10_artists[i].key]
           /\ \A i, j \in 1..n : i < j => top_10_artists[i].count >= top_10_artists[j].count
           /\ \A a \in listed : \A b \in arts \ listed : cnt[a] >= cnt[b]

\* C6 witness: a top-artist table of 10 entries cut from more than 10 artists,
\* whose counts are not all equal.
C6_Witness ==
    /\ "bar" \in done
    /\ Len(top_10_artists) = 10
    /\ Cardinality({df_filtered[j].artists : j \in 1..Len(df_filtered)}) > 10
    /\ top_10_artists[1].count > top_10_artists[10].count

\* C7: the decade-distribution table has one entry per decade label of the
\* filtered set, with its row count, in strictly ascending order of the integer
\* value of the label without its trailing "s".
C7_DecadesAscending ==
    "pie" \in done =>
        LET col == Column(df_filtered, "decade")
            n == Len(decade_distribution)
            Value(label) == StrToInt(SubSeq(label, 1, Len(label) - 1))
        IN /\ {decade_distribution[i].key : i \in 1..n} = {col[j] : j \in 1..Len(col)}
           /\ \A i \in 1..n :
                  decade_distribution[i].count = CountOf(decade_distribution[i].key, col)
           /\ \A i, j \in 1..n :
                  i < j => Value(decade_distribution[i].key) < Value(decade_distribution[j].key)

\* C7 witness: a decade table in which a later decade has more rows than an
\* earlier one, so that the order by count is not the order by decade.
C7_Witness ==
    /\ "pie" \in done
    /\ \E i, j \in 1..Len(decade_distribution) :
          i < j /\ decade_distribution[i].count < decade_distribution[j].count

\* C8: loading a readable Variant B source succeeds, and every row whose
\* release date starts with an integer before the first "-" is in the table
\* under name, artists and that year.
C8_VariantBLoads ==
    (source.readable /\ source.variant = "B" /\ pc # "start") =>
        LET DashAt(d) == Min({k \in 1..(Len(d) + 1) : k = Len(d) + 1 \/ d[k] = "-"})
            YearText(d) == SubSeq(d, 1, DashAt(d) - 1)
            Parsable(d) ==
                /\ YearText(d) # <<>>
                /\ \A k \in 1..Len(YearText(d)) : YearText(d)[k] \in {Digits[i] : i \in 1..10}
        IN /\ exc = "none"
           /\ "load" \in done
           /\ \A k \in 1..Len(source.rows) :
                  Parsable(source.rows[k].track_album_release_date) =>
                      \E i \in 1..Len(df_original) :
                          /\ df_original[i].name = source.rows[k].track_name
                          /\ df_original[i].artists = source.rows[k].track_artist
                          /\ df_original[i].year =
                                 StrToInt(YearText(source.rows[k].track_album_release_date))

\* C9: after normalization, an artists value stored as a stringified list has
\* no square bracket, no single or double quote, and no leading or trailing space.
C9_NoListPunctuation ==
    "load" \in done =>
        \A i \in 1..Len(df_original) :
            LET raw == source.rows[df_original[i].idx + 1].artists
                a == df_original[i].artists
            IN (raw # <<>> /\ raw[1] = "[" /\ raw[Len(raw)] = "]") =>
                   /\ \A k \in 1..Len(a) : a[k] \notin {"[", "]", "'", "\""}
                   /\ a = <<>> \/ (a[1] # " " /\ a[Len(a)] # " ")

\* C10: in every pass of a session the options offered to the artist selection
\* are one and the same list, the min(100, number of artists) most frequent
\* artists of the unfiltered normalized table, and the table a pass works on is
\* the memoized normalized table, unchanged by filtering.
C10_AllowlistStable ==
    /\ Cardinality(offered) <= 1
    /\ "load" \in done => (cache.valid /\ df_original = cache.df)
    /\ "filters" \in done =>
          LET all == Column(cache.df, "artists")
              arts == {all[j] : j \in 1..Len(all)}
              cnt == [a \in arts |-> CountOf(a, all)]
              n == Len(top_artists)
              listed == {top_artists[i] : i \in 1..n}
          IN /\ offered = {top_artists}
             /\ n <= 100
             /\ n = 100 \/ n = Cardinality(arts)
             /\ Cardinality(listed) = n
             /\ listed \subseteq arts
             /\ \A a \in listed : \A b \in arts \ listed : cnt[a] >= cnt[b]

\* C10 witness: a pass after both filters were changed, whose filters removed
\* rows, offering 100 options cut from more than 100 artists.
C10_Witness ==
    /\ "filters" \in done
    /\ widgets.year_range # DefaultRange
    /\ widgets.selected # {}
    /\ Len(df_filtered) < Len(df_original)
    /\ Len(top_artists) = 100
    /\ Cardinality({df_original[j].artists : j \in 1..Len(df_original)}) > 100
    /\ Cardinality(offered) = 1

====
